---------------------------- MODULE Spec2Model ----------------------------
(***************************************************************************)
(* A model of WetHumidGasPvt<Scalar>::initFromState and of the two table   *)
(* extension helpers extendPvtgwTable_ / extendPvtgTable_.                 *)
(*                                                                         *)
(* initFromState is one sequential function.  The model follows its        *)
(* control flow with a program counter `pc`; every loop iteration that can *)
(* throw is one action.  Scalars are exact rationals <<num, den>> (the     *)
(* rounding of float/double is not modelled).  The raw input tables are    *)
(* generated from a shape (number of undersaturated rows per saturated     *)
(* row) by fixed value formulas.                                           *)
(***************************************************************************)
EXTENDS Integers, Sequences, FiniteSets, TLC

\* ------------------------------------------------------------------ bounds
\* largest number of regions / tables of one family in an input
MaxRegions == 2
\* largest number of undersaturated rows of one raw table, all of its
\* saturated rows taken together
MaxUnderRows == 6

\* largest number of rows of the master table in a single extension call
MaxMasterRows == 3

\* largest report step number passed to prepareStep
MaxSeqnum == 2
\* largest number of records of a restart file
MaxRecords == 3

\* ------------------------------------------------------- Scalar arithmetic
Abs(a) == IF a < 0 THEN -a ELSE a

RECURSIVE Gcd(_, _)
Gcd(a, b) == IF b = 0 THEN a ELSE Gcd(b, a % b)

\* a Scalar: the fraction n/d in lowest terms, d > 0; d = 0 stands for inf/nan
Norm(n, d) ==
    IF d = 0 THEN <<n, 0>>
    ELSE LET g == Gcd(Abs(n), Abs(d))
             s == IF d < 0 THEN -1 ELSE 1
         IN  <<(s * n) \div g, (s * d) \div g>>

Sc(i) == <<i, 1>>
ScAdd(a, b) == Norm(a[1] * b[2] + b[1] * a[2], a[2] * b[2])
ScSub(a, b) == Norm(a[1] * b[2] - b[1] * a[2], a[2] * b[2])
ScMul(a, b) == Norm(a[1] * b[1], a[2] * b[2])
ScDiv(a, b) == Norm(a[1] * b[2], a[2] * b[1])
ScLess(a, b) == a[1] * b[2] < b[1] * a[2]

\* ------------------------------------------------------------- raw tables
\* A raw PVTGW / PVTG / RWGSALT table as the deck parser hands it over:
\*   sat   : the saturated table, one record per row
\*   under : per saturated row, the undersaturated table (a sequence of rows)
\* `R` is the ratio column (RW for PVTGW, RV for PVTG; C_SALT / RVW for the
\* salt table).  Rows and columns are 1-based here, 0-based in the C++.
Families == {"PVTGW", "PVTG", "RWGSALT"}
Variants == {"inc", "dec"}

FamOff(fam) == IF fam = "PVTGW" THEN 0 ELSE IF fam = "PVTG" THEN 1 ELSE 2

\* ratio of undersaturated row j of saturated row i: strictly increasing in j
\* for variant "inc" (the step from row j - 1 to row j is i + j), strictly
\* decreasing for "dec"
RawRatio(variant, i, j) ==
    LET up == i * j + ((j * (j + 1)) \div 2)
    IN  IF variant = "inc" THEN up ELSE 200 - up

UnderRow(fam, r, variant, i, j) ==
    [R   |-> Sc(RawRatio(variant, i, j)),
     BG  |-> Sc(i + j + r + 1),
     MUG |-> Sc(i + 2 * j + FamOff(fam))]

SatRow(fam, r, variant, i) ==
    [PG  |-> Sc(10 * i + r),
     BG  |-> Sc(i + r + 2),
     MUG |-> Sc(i + 2 + FamOff(fam)),
     R   |-> Sc(RawRatio(variant, i, 1))]

\* shape[i] = number of rows of the undersaturated table of saturated row i
MakeTable(fam, r, variant, shape) ==
    [sat   |-> [i \in 1..Len(shape) |-> SatRow(fam, r, variant, i)],
     under |-> [i \in 1..Len(shape) |->
                   [j \in 1..shape[i] |-> UnderRow(fam, r, variant, i, j)]]]

\* a raw RWGSALT table: saturated rows (PG), undersaturated rows (C_SALT, RVW)
MakeSaltTable(r, variant, shape) ==
    [sat   |-> [i \in 1..Len(shape) |-> [PG |-> Sc(10 * i + r)]],
     under |-> [i \in 1..Len(shape) |->
                   [j \in 1..shape[i] |->
                       [C_SALT |-> Sc(RawRatio(variant, i, j)), RVW |-> Sc(i + j + r)]]]]

NumRows(tbl) == Len(tbl.sat)
UnderSaturatedTable(tbl, idx) == tbl.under[idx + 1]


\* ------------------------------------------------------------------ input
\* the shapes of exactly m undersaturated rows in all
RECURSIVE ShapesOfSize(_)
ShapesOfSize(m) ==
    IF m = 0 THEN {<<>>}
    ELSE UNION {{<<first>> \o rest : rest \in ShapesOfSize(m - first)} : first \in 1..m}

Shapes == UNION {ShapesOfSize(m) : m \in 0..MaxUnderRows}
\* the shapes of at most two saturated rows with at most two undersaturated rows
SmallShapes == UNION {[1..k -> 1..2] : k \in 0..2}
\* a complete table: two saturated rows, two undersaturated rows each
PlainShape == <<2, 2>>
\* a saturated table of one row
OneRowShape == <<1>>

NoPos == <<"none", 0>>
Positions(nw, ng, ns) ==
    ({"PVTGW"} \X (0..nw - 1)) \cup ({"PVTG"} \X (0..ng - 1))
        \cup ({"RWGSALT"} \X (0..ns - 1))

\* The input of initFromState, kept as the shapes of the tables of the
\* TableManager and the variant of their values.  Table posA has shape
\* shapeA, table posB is a one-row table, every other table is plain.
MakeInput(nd, nw, ng, ns, variant, posA, shapeA, posB) ==
    LET ShapeAt(pos) == IF pos = posA THEN shapeA
                        ELSE IF pos = posB THEN OneRowShape ELSE PlainShape
    IN  [density |-> nd,
         pvtgw   |-> [k \in 1..nw |-> ShapeAt(<<"PVTGW", k - 1>>)],
         pvtg    |-> [k \in 1..ng |-> ShapeAt(<<"PVTG", k - 1>>)],
         rwgsalt |-> [k \in 1..ns |-> ShapeAt(<<"RWGSALT", k - 1>>)],
         variant |-> variant]

Counts == 0..MaxRegions
FamilyPositions(n) == ({"PVTGW"} \X (0..n - 1)) \cup ({"PVTG"} \X (0..n - 1))
SaltPositions(ns) == {"RWGSALT"} \X (0..ns - 1)

\* inputs whose PVTGW or PVTG count differs from the density count (the tables
\* themselves are never read)
MismatchedInputs ==
    {MakeInput(c[1], c[2], c[3], c[4], "inc", NoPos, PlainShape, NoPos) :
        c \in {c \in Counts \X Counts \X Counts \X Counts : c[2] # c[1] \/ c[3] # c[1]}}

\* equal PVTGW, PVTG and density counts, salt tables for every region or for
\* none; one PVTGW or PVTG table of any shape
OneTableInputs ==
    UNION {{MakeInput(n, n, n, ns, "inc", q[1], q[2], NoPos) :
               q \in FamilyPositions(n) \X Shapes} : <<n, ns>> \in
                  {c \in Counts \X Counts : c[2] \in {0, c[1]}}}

\* equal counts, any number of salt tables; one table of a small shape, one
\* one-row table, both variants
TwoTableInputs ==
    UNION {{MakeInput(c[1], c[1], c[1], c[2], q[1], q[2], q[3], q[4]) :
               q \in Variants \X (Positions(c[1], c[1], c[2]) \cup {NoPos}) \X SmallShapes
                        \X (Positions(c[1], c[1], c[2]) \cup {NoPos})} :
           c \in Counts \X Counts}

\* the shapes of a salt table of two saturated rows: a branch of a salt table
\* may have no row at all
SaltShapes == [1..2 -> 0..2]

\* equal counts, a salt table for every region, one of them of any salt shape
SaltBranchInputs ==
    UNION {{MakeInput(n, n, n, n, "inc", q[1], q[2], NoPos) :
               q \in SaltPositions(n) \X SaltShapes} : n \in Counts}

Inputs == MismatchedInputs \cup OneTableInputs \cup TwoTableInputs \cup SaltBranchInputs

\* --------------------------------------------------------- engine tables
\* UniformXTabulated2DFunction: outer positions and, per position, the inner
\* samples <<y, value>> in the order they were appended
EmptyTable2D == [xPos |-> <<>>, samples |-> <<>>]
appendXPos(t, x) == [xPos |-> Append(t.xPos, x), samples |-> Append(t.samples, <<>>)]
appendSamplePoint(t, i, y, value) ==
    [t EXCEPT !.samples[i + 1] = Append(@, <<y, value>>)]
numX(t) == Len(t.xPos)
numY(t, i) == Len(t.samples[i + 1])

\* Tabulated1DFunction
EmptyTable1D == [x |-> <<>>, y |-> <<>>]
setXYArrays(xs, ys) == [x |-> xs, y |-> ys]

Column(rows, name) == [k \in 1..Len(rows) |-> rows[k][name]]


\* ------------------------------------------------- table extension helpers
\* (mutant) the difference is taken the other way round
MasterX_Swapped(c1, c2) == ScDiv(ScSub(c2, c1), ScDiv(ScAdd(c1, c2), Sc(2)))

\* the relative change of a master column between two consecutive rows
MasterX(c1, c2) == ScDiv(ScSub(c1, c2), ScDiv(ScAdd(c1, c2), Sc(2)))

\* (mutant) the relative change is applied one-sidedly
NewValue_OneSided(last, x) == ScMul(last, ScAdd(Sc(1), x))

\* the value that shows the same relative change starting from `last`
NewValue(last, x) ==
    ScDiv(ScMul(last, ScAdd(Sc(1), ScDiv(x, Sc(2)))), ScSub(Sc(1), ScDiv(x, Sc(2))))

\* (mutant) the master's ratio step with its sign reversed
NewRatio_Reversed(last, r1, r2) == ScAdd(last, ScSub(r2, r1))

\* the ratio of the new entry
NewRatio(last, r1, r2) == ScAdd(last, ScSub(r1, r2))

\* The loop of extendPvtgwTable_ / extendPvtgTable_ from newRowIdx on.  arr
\* holds RvArray, gasBArray and gasMuArray as one sequence of rows.
RECURSIVE ExtendLoop(_, _, _)
ExtendLoop(arr, masterTable, newRowIdx) ==
    IF ~(newRowIdx < Len(masterTable)) THEN arr
    ELSE LET back   == arr[Len(arr)]
             m1     == masterTable[newRowIdx + 1]
             m2     == masterTable[newRowIdx]
             newRv  == NewRatio(back.R, m1.R, m2.R)
             newBg  == NewValue(back.BG, MasterX(m1.BG, m2.BG))
             newMug == NewValue(back.MUG, MasterX(m1.MUG, m2.MUG))
         IN  ExtendLoop(Append(arr, [R |-> newRv, BG |-> newBg, MUG |-> newMug]),
                        masterTable, newRowIdx + 1)

\* first row index of the extension loop
FirstNewRowIdx == 1

\* the sample points the extension registers with the two 2-D tables
ExtensionRows(curTable, masterTable) ==
    LET arr == ExtendLoop(curTable, masterTable, FirstNewRowIdx)
    IN  SubSeq(arr, Len(curTable) + 1, Len(arr))

AppendPoints(t, i, pts) == [t EXCEPT !.samples[i + 1] = @ \o pts]

\* t2 = [invB |-> inverseGasBRvSat_[regionIdx], mu |-> gasMuRvSat_[regionIdx]]
extendPvtgwTable_(t2, idx, curTable, masterTable) ==
    LET rows == ExtensionRows(curTable, masterTable)
    IN  [invB |-> AppendPoints(t2.invB, idx,
                     [k \in 1..Len(rows) |-> <<rows[k].R, ScDiv(Sc(1), rows[k].BG)>>]),
         mu   |-> AppendPoints(t2.mu, idx,
                     [k \in 1..Len(rows) |-> <<rows[k].R, rows[k].MUG>>])]

\* t2 = [invB |-> inverseGasBRvwSat_[regionIdx], mu |-> gasMuRvwSat_[regionIdx]]
extendPvtgTable_(t2, idx, curTable, masterTable) ==
    LET rows == ExtensionRows(curTable, masterTable)
    IN  [invB |-> AppendPoints(t2.invB, idx,
                     [k \in 1..Len(rows) |-> <<rows[k].R, ScDiv(Sc(1), rows[k].BG)>>]),
         mu   |-> AppendPoints(t2.mu, idx,
                     [k \in 1..Len(rows) |-> <<rows[k].R, rows[k].MUG>>])]

\* (mutant) two sampling points are not enough
HasEnoughSamples_MoreThanTwo(n) == n > 2

\* "everything is fine if the current table has two or more sampling points"
HasEnoughSamples(n) == n > 1

\* (mutant) a table of two rows is no master
IsMaster_MoreThanTwo(underSaturatedTable) == Len(underSaturatedTable) > 2

\* (mutant) a table with a single row is taken as master
IsMaster_AnyRow(underSaturatedTable) == Len(underSaturatedTable) > 0

\* a table can serve as master when it has values for undersaturated gas
IsMaster(underSaturatedTable) == Len(underSaturatedTable) > 1

\* (mutant) no search: the next node is taken as it is
MasterSearch_NoLoop(tbl, m) == m

\* the master search: the first index from m on whose raw undersaturated table
\* is a master, NumRows(tbl) when there is none
RECURSIVE MasterSearch(_, _)
MasterSearch(tbl, m) ==
    IF m < NumRows(tbl) /\ ~IsMaster(UnderSaturatedTable(tbl, m))
    THEN MasterSearch(tbl, m + 1)
    ELSE m

\* (mutant) the search skips the next node
FirstMasterCandidate_SkipNext(idx) == idx + 2

FirstMasterCandidate(idx) == idx + 1

\* One iteration of the "at least two sample points" loop for outer index idx.
\* Result: the two 2-D tables and whether the iteration throws.
ExtendNode(fam, t2, tbl, idx) ==
    IF HasEnoughSamples(numY(t2.invB, idx)) THEN [t2 |-> t2, throws |-> FALSE]
    ELSE LET masterTableIdx == MasterSearch(tbl, FirstMasterCandidate(idx))
         IN  IF masterTableIdx >= NumRows(tbl) THEN [t2 |-> t2, throws |-> TRUE]
             ELSE [t2 |-> IF fam = "PVTGW"
                          THEN extendPvtgwTable_(t2, idx, UnderSaturatedTable(tbl, idx),
                                                 UnderSaturatedTable(tbl, masterTableIdx))
                          ELSE extendPvtgTable_(t2, idx, UnderSaturatedTable(tbl, idx),
                                                UnderSaturatedTable(tbl, masterTableIdx)),
                   throws |-> FALSE]

\* the whole loop from outer index idx on
RECURSIVE ExtrapolationPass(_, _, _, _)
ExtrapolationPass(fam, t2, tbl, idx) ==
    IF ~(idx < numX(t2.invB)) THEN [t2 |-> t2, throws |-> FALSE]
    ELSE LET one == ExtendNode(fam, t2, tbl, idx)
         IN  IF one.throws THEN one ELSE ExtrapolationPass(fam, one.t2, tbl, idx + 1)

InverseB(row) == ScDiv(Sc(1), row.BG)
InverseBMu(row) == ScDiv(Sc(1), ScMul(row.MUG, row.BG))
CellValue(which, row) == IF which = "invB" THEN InverseB(row) ELSE row.MUG

\* The extraction loop of one region from outerIdx on: one outer position per
\* saturated row, the rows of its undersaturated table as inner samples.
RECURSIVE FillTable2D(_, _, _, _)
FillTable2D(t, tbl, outerIdx, which) ==
    IF ~(outerIdx < NumRows(tbl)) THEN t
    ELSE LET under  == UnderSaturatedTable(tbl, outerIdx)
             withX  == appendXPos(t, tbl.sat[outerIdx + 1].PG)
             filled == AppendPoints(withX, outerIdx,
                          [k \in 1..Len(under) |-> <<under[k].R, CellValue(which, under[k])>>])
         IN  FillTable2D(filled, tbl, outerIdx + 1, which)

\* ------------------------------------------------------------------ state
VARIABLES
    input,          \* the tables of eclState (never changes)
    schedule,       \* the schedule steps read so far (<<>> until it is read)
    pc,             \* position in initFromState
    err,            \* the error thrown, "none" while there is none
    regionIdx,      \* loop variable of the region loops
    xIdx,           \* loop variable of the "two sample points" loop
    numRegions,     \* what setNumRegions was called with
    referenceDensity_,
    enableRwgSalt_,
    saturatedWaterVaporizationSaltFactorTable_,
    inverseGasBRvSat_,
    gasMuRvSat_,
    inverseGasBRvwSat_,
    gasMuRvwSat_,
    inverseSaturatedGasB_,
    inverseSaturatedGasBMu_,
    saturatedWaterVaporizationFactorTable_,
    saturatedOilVaporizationFactorTable_,
    vapPar1_,
    initEndCalled,
    ext,            \* a single call of extendPvtgwTable_ / extendPvtgTable_
    restart         \* an OutputStream::Restart object and the files it works on

control == <<pc, err, regionIdx, xIdx>>
wetTables == <<inverseGasBRvSat_, gasMuRvSat_, saturatedWaterVaporizationFactorTable_>>
humidTables == <<inverseGasBRvwSat_, gasMuRvwSat_, saturatedOilVaporizationFactorTable_>>
satCurves == <<inverseSaturatedGasB_, inverseSaturatedGasBMu_>>
saltTables == <<saturatedWaterVaporizationSaltFactorTable_>>
engine == <<numRegions, referenceDensity_, enableRwgSalt_, saltTables, wetTables,
            humidTables, satCurves, vapPar1_, initEndCalled>>
vars == <<input, schedule, control, engine, ext, restart>>

\* the tables of eclState.getTableManager()
densityTable ==
    [k \in 1..input.density |->
        [oil |-> Sc(3 * k), gas |-> Sc(3 * k + 1), water |-> Sc(3 * k + 2)]]
pvtgwTables ==
    [k \in 1..Len(input.pvtgw) |-> MakeTable("PVTGW", k - 1, input.variant, input.pvtgw[k])]
pvtgTables ==
    [k \in 1..Len(input.pvtg) |-> MakeTable("PVTG", k - 1, input.variant, input.pvtg[k])]
rwgsaltTables ==
    [k \in 1..Len(input.rwgsalt) |-> MakeSaltTable(k - 1, input.variant, input.rwgsalt[k])]

NoError == [kind |-> "none", table |-> "none"]
NoDensity == [oil |-> Sc(0), gas |-> Sc(0), water |-> Sc(0)]

\* no single call is under way
NoCall == [pc |-> "idle"]

\* no restart stream object exists
NoRestart == [pc |-> "idle"]

InitEngine ==
    /\ numRegions = 0
    /\ referenceDensity_ = <<>>
    /\ enableRwgSalt_ = FALSE
    /\ saturatedWaterVaporizationSaltFactorTable_ = <<>>
    /\ inverseGasBRvSat_ = <<>>
    /\ gasMuRvSat_ = <<>>
    /\ inverseGasBRvwSat_ = <<>>
    /\ gasMuRvwSat_ = <<>>
    /\ inverseSaturatedGasB_ = <<>>
    /\ inverseSaturatedGasBMu_ = <<>>
    /\ saturatedWaterVaporizationFactorTable_ = <<>>
    /\ saturatedOilVaporizationFactorTable_ = <<>>
    /\ vapPar1_ = Sc(0)
    /\ initEndCalled = FALSE

Init ==
    /\ input \in Inputs
    /\ schedule = <<>>
    /\ pc = "checkSizes"
    /\ err = NoError
    /\ regionIdx = 0
    /\ xIdx = 0
    /\ InitEngine
    /\ ext = NoCall
    /\ restart = NoRestart

\* OPM_THROW(std::runtime_error, ...): kind is the error the message tells,
\* table the table the message names
Throw(kind, table) ==
    /\ pc' = "failed"
    /\ err' = [kind |-> kind, table |-> table]
    /\ UNCHANGED <<regionIdx, xIdx>>

\* ---------------------------------------------------------------- actions
PvtgwSizeMismatch == Len(pvtgwTables) # Len(densityTable)
\* (mutant) only too few PVTG tables are a mismatch
PvtgSizeMismatch_TooFew == Len(pvtgTables) < Len(densityTable)
PvtgSizeMismatch == Len(pvtgTables) # Len(densityTable)

\* the two size checks at the head of initFromState
CheckTableSizes ==
    /\ pc = "checkSizes"
    /\ IF PvtgwSizeMismatch THEN Throw("TableMismatch", "PVTGW")
       ELSE IF PvtgSizeMismatch THEN Throw("TableMismatch", "PVTG")
       ELSE /\ pc' = "setNumRegions"
            /\ UNCHANGED <<err, regionIdx, xIdx>>
    /\ UNCHANGED <<restart, ext, input, schedule, engine>>

Resize(vec, n, empty) == [k \in 1..n |-> IF k <= Len(vec) THEN vec[k] ELSE empty]

\* where the region loops lead when there is no region
FirstLoop(n, inLoop, after) == IF 0 < n THEN inLoop ELSE after

SetNumRegions ==
    /\ pc = "setNumRegions"
    /\ LET n == Len(pvtgwTables)
       IN  /\ numRegions' = n
           /\ referenceDensity_' = Resize(referenceDensity_, n, NoDensity)
           /\ saturatedWaterVaporizationSaltFactorTable_' =
                  Resize(saturatedWaterVaporizationSaltFactorTable_, n, EmptyTable2D)
           /\ inverseGasBRvSat_' = Resize(inverseGasBRvSat_, n, EmptyTable2D)
           /\ gasMuRvSat_' = Resize(gasMuRvSat_, n, EmptyTable2D)
           /\ inverseGasBRvwSat_' = Resize(inverseGasBRvwSat_, n, EmptyTable2D)
           /\ gasMuRvwSat_' = Resize(gasMuRvwSat_, n, EmptyTable2D)
           /\ inverseSaturatedGasB_' = Resize(inverseSaturatedGasB_, n, EmptyTable1D)
           /\ inverseSaturatedGasBMu_' = Resize(inverseSaturatedGasBMu_, n, EmptyTable1D)
           /\ saturatedWaterVaporizationFactorTable_' =
                  Resize(saturatedWaterVaporizationFactorTable_, n, EmptyTable1D)
           /\ saturatedOilVaporizationFactorTable_' =
                  Resize(saturatedOilVaporizationFactorTable_, n, EmptyTable1D)
           /\ pc' = FirstLoop(n, "densities", "enableSalt")
    /\ UNCHANGED <<restart, ext, input, schedule, err, regionIdx, xIdx, enableRwgSalt_, vapPar1_,
                   initEndCalled>>

\* (mutant) every region gets the densities of the first record
SetReferenceDensities_FirstRecord ==
    /\ pc = "densities"
    /\ referenceDensity_' = [referenceDensity_ EXCEPT ![regionIdx + 1] = densityTable[1]]
    /\ IF regionIdx + 1 < numRegions
       THEN /\ regionIdx' = regionIdx + 1
            /\ pc' = pc
       ELSE /\ regionIdx' = 0
            /\ pc' = "enableSalt"
    /\ UNCHANGED <<restart, ext, input, schedule, err, xIdx, numRegions, enableRwgSalt_, saltTables,
                   wetTables, humidTables, satCurves, vapPar1_, initEndCalled>>

\* one iteration of the reference density loop
SetReferenceDensities ==
    /\ pc = "densities"
    /\ referenceDensity_' =
           [referenceDensity_ EXCEPT ![regionIdx + 1] = densityTable[regionIdx + 1]]
    /\ IF regionIdx + 1 < numRegions
       THEN /\ regionIdx' = regionIdx + 1
            /\ pc' = pc
       ELSE /\ regionIdx' = 0
            /\ pc' = "enableSalt"
    /\ UNCHANGED <<restart, ext, input, schedule, err, xIdx, numRegions, enableRwgSalt_, saltTables,
                   wetTables, humidTables, satCurves, vapPar1_, initEndCalled>>

EnableRwgSalt ==
    /\ pc = "enableSalt"
    /\ enableRwgSalt_' = (Len(rwgsaltTables) # 0)
    /\ pc' = IF enableRwgSalt_' THEN FirstLoop(numRegions, "salt", "vapPar")
             ELSE FirstLoop(numRegions, "pvtgw", "vapPar")
    /\ UNCHANGED <<restart, ext, input, schedule, err, regionIdx, xIdx, numRegions, referenceDensity_,
                   saltTables, wetTables, humidTables, satCurves, vapPar1_, initEndCalled>>

\* (mutant) only an empty saturated table is rejected
HasTooFewRows_OnlyEmpty(saturatedTable) == Len(saturatedTable) < 1

\* "Saturated ... table must have at least 2 rows"
HasTooFewRows(saturatedTable) == Len(saturatedTable) < 2

\* (mutant) a branch of fewer than two rows gets no sample
RECURSIVE FillSaltTable_SkipsShort(_, _, _)
FillSaltTable_SkipsShort(t, tbl, outerIdx) ==
    IF ~(outerIdx < NumRows(tbl)) THEN t
    ELSE LET under  == UnderSaturatedTable(tbl, outerIdx)
             withX  == appendXPos(t, tbl.sat[outerIdx + 1].PG)
             filled == IF Len(under) < 2 THEN withX
                       ELSE AppendPoints(withX, outerIdx,
                               [k \in 1..Len(under) |-> <<under[k].C_SALT, under[k].RVW>>])
         IN  FillSaltTable_SkipsShort(filled, tbl, outerIdx + 1)

\* the salt table of one region from outerIdx on
RECURSIVE FillSaltTable(_, _, _)
FillSaltTable(t, tbl, outerIdx) ==
    IF ~(outerIdx < NumRows(tbl)) THEN t
    ELSE LET under  == UnderSaturatedTable(tbl, outerIdx)
             withX  == appendXPos(t, tbl.sat[outerIdx + 1].PG)
             filled == AppendPoints(withX, outerIdx,
                          [k \in 1..Len(under) |-> <<under[k].C_SALT, under[k].RVW>>])
         IN  FillSaltTable(filled, tbl, outerIdx + 1)

\* What rwgsaltTables[idx] yields.  Past the end of the vector the read is
\* undefined: the call may crash, or see some table object.
RwgsaltTableAt(idx) ==
    IF idx < Len(rwgsaltTables) THEN {[crash |-> FALSE, table |-> rwgsaltTables[idx + 1]]}
    ELSE {[crash |-> TRUE, table |-> MakeSaltTable(idx, input.variant, PlainShape)],
          [crash |-> FALSE, table |-> MakeSaltTable(idx, input.variant, OneRowShape)],
          [crash |-> FALSE, table |-> MakeSaltTable(idx, input.variant, PlainShape)]}

\* (mutant) the row check is made after the first outer position was appended
RwgSaltRegion_FillThenCheck ==
    /\ pc = "salt"
    /\ \E read \in RwgsaltTableAt(regionIdx) :
          LET rwgsaltTable == read.table
              started == [saturatedWaterVaporizationSaltFactorTable_ EXCEPT
                             ![regionIdx + 1] = appendXPos(@, Sc(0))]
          IN
          IF read.crash
          THEN /\ pc' = "crashed"
               /\ UNCHANGED <<err, regionIdx, xIdx, saltTables>>
          ELSE IF HasTooFewRows(rwgsaltTable.sat)
          THEN /\ Throw("InsufficientData", "RWGSALT")
               /\ saturatedWaterVaporizationSaltFactorTable_' = started
          ELSE /\ saturatedWaterVaporizationSaltFactorTable_' =
                      [saturatedWaterVaporizationSaltFactorTable_ EXCEPT
                          ![regionIdx + 1] = FillSaltTable(@, rwgsaltTable, 0)]
               /\ IF regionIdx + 1 < numRegions
                  THEN /\ regionIdx' = regionIdx + 1
                       /\ pc' = pc
                  ELSE /\ regionIdx' = 0
                       /\ pc' = "pvtgw"
               /\ UNCHANGED <<err, xIdx>>
    /\ UNCHANGED <<restart, ext, input, schedule, numRegions, referenceDensity_, enableRwgSalt_,
                   wetTables, humidTables, satCurves, vapPar1_, initEndCalled>>

\* (mutant) the region index of the salt loop is left where the loop ended
RwgSaltRegion_KeepsRegionIdx ==
    /\ pc = "salt"
    /\ \E read \in RwgsaltTableAt(regionIdx) :
          LET rwgsaltTable == read.table
          IN
          IF read.crash
          THEN /\ pc' = "crashed"
               /\ UNCHANGED <<err, regionIdx, xIdx, saltTables>>
          ELSE IF HasTooFewRows(rwgsaltTable.sat)
          THEN /\ Throw("InsufficientData", "RWGSALT")
               /\ UNCHANGED saltTables
          ELSE /\ saturatedWaterVaporizationSaltFactorTable_' =
                      [saturatedWaterVaporizationSaltFactorTable_ EXCEPT
                          ![regionIdx + 1] = FillSaltTable(@, rwgsaltTable, 0)]
               /\ IF regionIdx + 1 < numRegions
                  THEN /\ regionIdx' = regionIdx + 1
                       /\ pc' = pc
                  ELSE /\ regionIdx' = regionIdx
                       /\ pc' = "pvtgw"
               /\ UNCHANGED <<err, xIdx>>
    /\ UNCHANGED <<restart, ext, input, schedule, numRegions, referenceDensity_, enableRwgSalt_,
                   wetTables, humidTables, satCurves, vapPar1_, initEndCalled>>

\* one iteration of the RWGSALT region loop
RwgSaltRegion ==
    /\ pc = "salt"
    /\ \E read \in RwgsaltTableAt(regionIdx) :
          LET rwgsaltTable == read.table
          IN
          IF read.crash
          THEN /\ pc' = "crashed"
               /\ UNCHANGED <<err, regionIdx, xIdx, saltTables>>
          ELSE IF HasTooFewRows(rwgsaltTable.sat)
          THEN /\ Throw("InsufficientData", "RWGSALT")
               /\ UNCHANGED saltTables
          ELSE /\ saturatedWaterVaporizationSaltFactorTable_' =
                      [saturatedWaterVaporizationSaltFactorTable_ EXCEPT
                          ![regionIdx + 1] = FillSaltTable(@, rwgsaltTable, 0)]
               /\ IF regionIdx + 1 < numRegions
                  THEN /\ regionIdx' = regionIdx + 1
                       /\ pc' = pc
                  ELSE /\ regionIdx' = 0
                       /\ pc' = "pvtgw"
               /\ UNCHANGED <<err, xIdx>>
    /\ UNCHANGED <<restart, ext, input, schedule, numRegions, referenceDensity_, enableRwgSalt_,
                   wetTables, humidTables, satCurves, vapPar1_, initEndCalled>>

\* the saturated curves 1/B and 1/(mu*B) over the pressure column
InvSatGasB(saturatedTable) ==
    setXYArrays(Column(saturatedTable, "PG"),
                [k \in 1..Len(saturatedTable) |-> InverseB(saturatedTable[k])])
InvSatGasBMu(saturatedTable) ==
    setXYArrays(Column(saturatedTable, "PG"),
                [k \in 1..Len(saturatedTable) |-> InverseBMu(saturatedTable[k])])

\* one iteration of the PVTGW region loop up to the "two sample points" loop
PvtgwRegion ==
    /\ pc = "pvtgw"
    /\ LET pvtgwTable == pvtgwTables[regionIdx + 1]
           saturatedTable == pvtgwTable.sat
       IN  IF HasTooFewRows(saturatedTable)
           THEN /\ Throw("InsufficientData", "PVTGW")
                /\ UNCHANGED <<wetTables, satCurves>>
           ELSE /\ saturatedWaterVaporizationFactorTable_' =
                       [saturatedWaterVaporizationFactorTable_ EXCEPT ![regionIdx + 1] =
                           setXYArrays(Column(saturatedTable, "PG"),
                                       Column(saturatedTable, "R"))]
                /\ inverseGasBRvSat_' = [inverseGasBRvSat_ EXCEPT ![regionIdx + 1] =
                                            FillTable2D(@, pvtgwTable, 0, "invB")]
                /\ gasMuRvSat_' = [gasMuRvSat_ EXCEPT ![regionIdx + 1] =
                                      FillTable2D(@, pvtgwTable, 0, "mu")]
                /\ inverseSaturatedGasB_' = [inverseSaturatedGasB_ EXCEPT
                                                ![regionIdx + 1] = InvSatGasB(saturatedTable)]
                /\ inverseSaturatedGasBMu_' = [inverseSaturatedGasBMu_ EXCEPT
                                                  ![regionIdx + 1] = InvSatGasBMu(saturatedTable)]
                /\ pc' = "pvtgwExtend"
                /\ xIdx' = 0
                /\ UNCHANGED <<err, regionIdx>>
    /\ UNCHANGED <<restart, ext, input, schedule, numRegions, referenceDensity_, enableRwgSalt_,
                   saltTables, humidTables, vapPar1_, initEndCalled>>

\* (mutant) the region loop ends after its first region
LoopAdvance_OneRegion(count, inner, nextRegion, after) ==
    IF xIdx + 1 < count
    THEN /\ xIdx' = xIdx + 1
         /\ pc' = inner
         /\ UNCHANGED regionIdx
    ELSE /\ xIdx' = 0
         /\ regionIdx' = 0
         /\ pc' = after

\* control after iteration xIdx of a "two sample points" loop
LoopAdvance(count, inner, nextRegion, after) ==
    IF xIdx + 1 < count
    THEN /\ xIdx' = xIdx + 1
         /\ pc' = inner
         /\ UNCHANGED regionIdx
    ELSE /\ xIdx' = 0
         /\ IF regionIdx + 1 < numRegions
            THEN /\ regionIdx' = regionIdx + 1
                 /\ pc' = nextRegion
            ELSE /\ regionIdx' = 0
                 /\ pc' = after

\* one iteration of the PVTGW "two sample points" loop
PvtgwExtendNode ==
    /\ pc = "pvtgwExtend"
    /\ LET pvtgwTable == pvtgwTables[regionIdx + 1]
           one == ExtendNode("PVTGW", [invB |-> inverseGasBRvSat_[regionIdx + 1],
                                       mu   |-> gasMuRvSat_[regionIdx + 1]],
                             pvtgwTable, xIdx)
       IN  IF one.throws
           THEN /\ Throw("ExtrapolationImpossible", "PVTGW")
                /\ UNCHANGED <<inverseGasBRvSat_, gasMuRvSat_>>
           ELSE /\ inverseGasBRvSat_' = [inverseGasBRvSat_ EXCEPT ![regionIdx + 1] = one.t2.invB]
                /\ gasMuRvSat_' = [gasMuRvSat_ EXCEPT ![regionIdx + 1] = one.t2.mu]
                /\ LoopAdvance(numX(inverseGasBRvSat_[regionIdx + 1]),
                               "pvtgwExtend", "pvtgw", "pvtg")
                /\ UNCHANGED err
    /\ UNCHANGED <<restart, ext, input, schedule, numRegions, referenceDensity_, enableRwgSalt_,
                   saltTables, saturatedWaterVaporizationFactorTable_, humidTables,
                   satCurves, vapPar1_, initEndCalled>>

\* one iteration of the PVTG region loop up to the "two sample points" loop
PvtgRegion ==
    /\ pc = "pvtg"
    /\ LET pvtgTable == pvtgTables[regionIdx + 1]
           saturatedTable == pvtgTable.sat
       IN  IF HasTooFewRows(saturatedTable)
           THEN /\ Throw("InsufficientData", "PVTG")
                /\ UNCHANGED <<humidTables, satCurves>>
           ELSE /\ saturatedOilVaporizationFactorTable_' =
                       [saturatedOilVaporizationFactorTable_ EXCEPT ![regionIdx + 1] =
                           setXYArrays(Column(saturatedTable, "PG"),
                                       Column(saturatedTable, "R"))]
                /\ inverseGasBRvwSat_' = [inverseGasBRvwSat_ EXCEPT ![regionIdx + 1] =
                                             FillTable2D(@, pvtgTable, 0, "invB")]
                /\ gasMuRvwSat_' = [gasMuRvwSat_ EXCEPT ![regionIdx + 1] =
                                       FillTable2D(@, pvtgTable, 0, "mu")]
                /\ inverseSaturatedGasB_' = [inverseSaturatedGasB_ EXCEPT
                                                ![regionIdx + 1] = InvSatGasB(saturatedTable)]
                /\ inverseSaturatedGasBMu_' = [inverseSaturatedGasBMu_ EXCEPT
                                                  ![regionIdx + 1] = InvSatGasBMu(saturatedTable)]
                /\ pc' = "pvtgExtend"
                /\ xIdx' = 0
                /\ UNCHANGED <<err, regionIdx>>
    /\ UNCHANGED <<restart, ext, input, schedule, numRegions, referenceDensity_, enableRwgSalt_,
                   saltTables, wetTables, vapPar1_, initEndCalled>>

\* one iteration of the PVTG "two sample points" loop
PvtgExtendNode ==
    /\ pc = "pvtgExtend"
    /\ LET pvtgTable == pvtgTables[regionIdx + 1]
           one == ExtendNode("PVTG", [invB |-> inverseGasBRvwSat_[regionIdx + 1],
                                      mu   |-> gasMuRvwSat_[regionIdx + 1]],
                             pvtgTable, xIdx)
       IN  IF one.throws
           THEN /\ Throw("ExtrapolationImpossible", "PVTG")
                /\ UNCHANGED <<inverseGasBRvwSat_, gasMuRvwSat_>>
           ELSE /\ inverseGasBRvwSat_' = [inverseGasBRvwSat_ EXCEPT ![regionIdx + 1] = one.t2.invB]
                /\ gasMuRvwSat_' = [gasMuRvwSat_ EXCEPT ![regionIdx + 1] = one.t2.mu]
                /\ LoopAdvance(numX(inverseGasBRvwSat_[regionIdx + 1]),
                               "pvtgExtend", "pvtg", "vapPar")
                /\ UNCHANGED err
    /\ UNCHANGED <<restart, ext, input, schedule, numRegions, referenceDensity_, enableRwgSalt_,
                   saltTables, wetTables, saturatedOilVaporizationFactorTable_,
                   satCurves, vapPar1_, initEndCalled>>

\* the oil vaporization settings a schedule step can carry
OilVapSettings == {[type |-> "VAPPARS", vap1 |-> Sc(2)],
                   [type |-> "DRDT",    vap1 |-> Sc(3)]}

\* the schedules initFromState is called with: two report steps
Schedules == [1..2 -> OilVapSettings]

\* (mutant) vapPar1_ from the last schedule step
SetVapPar_LastStep ==
    /\ pc = "vapPar"
    /\ \E sched \in Schedules :
          /\ schedule' = sched
          /\ LET oilVap == sched[Len(sched)]
             IN  vapPar1_' = IF oilVap.type = "VAPPARS" THEN oilVap.vap1 ELSE Sc(0)
    /\ pc' = "initEnd"
    /\ UNCHANGED <<restart, ext, input, err, regionIdx, xIdx, numRegions, referenceDensity_,
                   enableRwgSalt_, saltTables, wetTables, humidTables, satCurves,
                   initEndCalled>>

\* vapPar1_ from schedule[0]
SetVapPar ==
    /\ pc = "vapPar"
    /\ \E sched \in Schedules :
          /\ schedule' = sched
          /\ LET oilVap == sched[1]
             IN  vapPar1_' = IF oilVap.type = "VAPPARS" THEN oilVap.vap1 ELSE Sc(0)
    /\ pc' = "initEnd"
    /\ UNCHANGED <<restart, ext, input, err, regionIdx, xIdx, numRegions, referenceDensity_,
                   enableRwgSalt_, saltTables, wetTables, humidTables, satCurves,
                   initEndCalled>>

InitEnd ==
    /\ pc = "initEnd"
    /\ initEndCalled' = TRUE
    /\ pc' = "done"
    /\ UNCHANGED <<restart, ext, input, schedule, err, regionIdx, xIdx, numRegions, referenceDensity_,
                   enableRwgSalt_, saltTables, wetTables, humidTables, satCurves, vapPar1_>>

Next ==
    \/ CheckTableSizes
    \/ SetNumRegions
    \/ SetReferenceDensities
    \/ EnableRwgSalt
    \/ RwgSaltRegion
    \/ PvtgwRegion
    \/ PvtgwExtendNode
    \/ PvtgRegion
    \/ PvtgExtendNode
    \/ SetVapPar
    \/ InitEnd

Spec == Init /\ [][Next]_vars

\* ----------------------------------------------------- reading the state
RawTables(fam) == IF fam = "PVTGW" THEN pvtgwTables ELSE pvtgTables
InvBTables(fam) == IF fam = "PVTGW" THEN inverseGasBRvSat_ ELSE inverseGasBRvwSat_
MuTables(fam) == IF fam = "PVTGW" THEN gasMuRvSat_ ELSE gasMuRvwSat_
GasFamilies == {"PVTGW", "PVTG"}

\* ------------------------------------------- a single extension call
\* The values of the single-row table of the node to extend and of the rows
\* of its master table.
CurRows == [R : {Sc(0), Sc(2)}, BG : {Sc(1), Sc(3)}, MUG : {Sc(1), Sc(3)}]
MasterRows == [R : {Sc(1), Sc(4)}, BG : {Sc(2), Sc(5)}, MUG : {Sc(2), Sc(5)}]
MasterTables == UNION {[1..k -> MasterRows] : k \in 2..MaxMasterRows}

\* the raw table of the call: outer index 0 is the node to extend, outer
\* index 1 its master
CallTable(fam, curTable, masterTable) ==
    [sat   |-> [i \in 1..2 |-> SatRow(fam, 0, "inc", i)],
     under |-> <<curTable, masterTable>>]

\* the 2-D tables as the extraction loop leaves them, and the call to make
InitCall ==
    \E fam \in GasFamilies : \E cur \in CurRows : \E masterTable \in MasterTables :
        ext = [pc          |-> "call",
               fam         |-> fam,
               curTable    |-> <<cur>>,
               masterTable |-> masterTable,
               t2 |-> [invB |-> FillTable2D(EmptyTable2D,
                                            CallTable(fam, <<cur>>, masterTable), 0, "invB"),
                       mu   |-> FillTable2D(EmptyTable2D,
                                            CallTable(fam, <<cur>>, masterTable), 0, "mu")]]

InitExt ==
    /\ input = MakeInput(0, 0, 0, 0, "inc", NoPos, PlainShape, NoPos)
    /\ schedule = <<>>
    /\ pc = "checkSizes"
    /\ err = NoError
    /\ regionIdx = 0
    /\ xIdx = 0
    /\ InitEngine
    /\ InitCall
    /\ restart = NoRestart

CallExtendPvtgwTable ==
    /\ ext.pc = "call" /\ ext.fam = "PVTGW"
    /\ ext' = [ext EXCEPT !.pc = "returned",
                          !.t2 = extendPvtgwTable_(@, 0, ext.curTable, ext.masterTable)]
    /\ UNCHANGED <<restart, input, schedule, control, engine>>

CallExtendPvtgTable ==
    /\ ext.pc = "call" /\ ext.fam = "PVTG"
    /\ ext' = [ext EXCEPT !.pc = "returned",
                          !.t2 = extendPvtgTable_(@, 0, ext.curTable, ext.masterTable)]
    /\ UNCHANGED <<restart, input, schedule, control, engine>>

NextExt ==
    \/ CallExtendPvtgwTable
    \/ CallExtendPvtgTable

SpecExt == InitExt /\ [][NextExt]_vars

\* ------------------------------------------------ OutputStream::Restart
Seqnums == 0..MaxSeqnum

DigitChar(d) == <<"0", "1", "2", "3", "4", "5", "6", "7", "8", "9">>[d + 1]
\* std::setw(4) << std::setfill('0') << rptStep, for 0 <= rptStep < 10000
FourDigits(n) ==
    <<DigitChar((n \div 1000) % 10), DigitChar((n \div 100) % 10),
      DigitChar((n \div 10) % 10), DigitChar(n % 10)>>

\* FileExtension::restart, the extension as a sequence of characters
FileExtension_restart(rptStep, formatted, unified) ==
    IF unified
    THEN (IF formatted THEN <<"F", "U", "N", "R", "S", "T">> ELSE <<"U", "N", "R", "S", "T">>)
    ELSE <<IF formatted THEN "F" ELSE "X">> \o FourDigits(rptStep)

\* outputFileName(rst, seqnum): directory and base name are the same for all
\* files of a run, the extension tells the files apart
outputFileName(rst, seqnum) == FileExtension_restart(seqnum, rst.formatted_, rst.unified_)

\* a file is the sequence of its records; a position in it is the number of
\* records before it
SeqnumRecord(seqnum) == [key |-> "SEQNUM", data |-> seqnum]
DataRecord == [key |-> "INTEHEAD", data |-> 0]
NoFile == [exists |-> FALSE, records |-> <<>>]
File(records) == [exists |-> TRUE, records |-> records]

\* the files a run may find when it starts: none, an empty one, one that is
\* no restart file, restart files of one and of two report steps
InitialFiles ==
    {NoFile, File(<<>>), File(<<DataRecord>>), File(<<SeqnumRecord(0), DataRecord>>),
     File(<<SeqnumRecord(0), SeqnumRecord(1)>>)}

NoStream == [open |-> FALSE, fname |-> <<>>]
NoPrepareStep == [op |-> "none", seqnum |-> 0, outcome |-> "none", writePos |-> -1]

\* ERst::hasKey
hasKey(file, key) == \E k \in 1..Len(file.records) : file.records[k].key = key

\* What ERst::restartStepWritePosition may report for a file: -1, or a
\* position in the file.
restartStepWritePosition(file, seqnum) == {-1} \cup (0..Len(file.records))

\* Open::Restart::writeNew: std::ios_base::out creates the file or empties it
writeNew(fs, fname) == [fs EXCEPT ![fname] = File(<<>>)]

\* Open::Restart::writeExisting: std::ios_base::app leaves the file as it is
writeExisting(fs, fname) == fs

\* (mutant) the file keeps its size
resize_file_KeepsSize(fs, fname, writePos) == fs

\* boost::filesystem::resize_file
resize_file(fs, fname, writePos) ==
    [fs EXCEPT ![fname].records = SubSeq(@, 1, writePos)]

\* EclOutput::write on a stream: the record goes to the end of its file
write(fs, stream, record) == [fs EXCEPT ![stream.fname].records = Append(@, record)]

OpenStream(fname) == [open |-> TRUE, fname |-> fname]

\* the Restart objects with the files of their run
RestartObjects ==
    UNION {{[pc         |-> "ready",
             formatted_ |-> q[1],
             unified_   |-> q[2],
             stream_    |-> NoStream,
             fs         |-> files,
             call       |-> NoPrepareStep] :
               files \in [{FileExtension_restart(n, q[1], q[2]) : n \in Seqnums}
                             -> InitialFiles]} :
           q \in BOOLEAN \X BOOLEAN}

InitRestart ==
    /\ input = MakeInput(0, 0, 0, 0, "inc", NoPos, PlainShape, NoPos)
    /\ schedule = <<>>
    /\ pc = "checkSizes"
    /\ err = NoError
    /\ regionIdx = 0
    /\ xIdx = 0
    /\ InitEngine
    /\ ext = NoCall
    /\ restart \in RestartObjects

Returned(seqnum, writePos) ==
    [op |-> "prepareStep", seqnum |-> seqnum, outcome |-> "returned", writePos |-> writePos]
Threw(seqnum, writePos) ==
    [op |-> "prepareStep", seqnum |-> seqnum, outcome |-> "threw", writePos |-> writePos]

\* prepareStep of a run with separate restart files: openNew
PrepareStepSeparate ==
    /\ restart.pc = "ready" /\ ~restart.unified_
    /\ \E seqnum \in Seqnums :
          LET fname == outputFileName(restart, seqnum)
          IN  restart' = [restart EXCEPT !.fs = writeNew(@, fname),
                                         !.stream_ = OpenStream(fname),
                                         !.call = Returned(seqnum, -1)]
    /\ UNCHANGED <<ext, input, schedule, control, engine>>

\* prepareStep of a unified run, no file can be opened: openNew, then SEQNUM
PrepareStepUnifiedNew ==
    /\ restart.pc = "ready" /\ restart.unified_
    /\ \E seqnum \in Seqnums :
          LET fname == outputFileName(restart, seqnum)
          IN  /\ ~restart.fs[fname].exists
              /\ restart' = [restart EXCEPT
                                !.fs = write(writeNew(@, fname), OpenStream(fname),
                                             SeqnumRecord(seqnum)),
                                !.stream_ = OpenStream(fname),
                                !.call = Returned(seqnum, -1)]
    /\ UNCHANGED <<ext, input, schedule, control, engine>>

\* prepareStep of a unified run, the file has no SEQNUM key: invalid_argument
PrepareStepNotRestartFile ==
    /\ restart.pc = "ready" /\ restart.unified_
    /\ \E seqnum \in Seqnums :
          LET fname == outputFileName(restart, seqnum)
          IN  /\ restart.fs[fname].exists
              /\ ~hasKey(restart.fs[fname], "SEQNUM")
              /\ restart' = [restart EXCEPT !.call = Threw(seqnum, -1)]
    /\ UNCHANGED <<ext, input, schedule, control, engine>>

\* prepareStep of a unified run on an existing restart file: openExisting at
\* the reported write position, then SEQNUM
PrepareStepExisting ==
    /\ restart.pc = "ready" /\ restart.unified_
    /\ \E seqnum \in Seqnums :
          LET fname == outputFileName(restart, seqnum)
              rst   == restart.fs[fname]
          IN  /\ rst.exists /\ hasKey(rst, "SEQNUM")
              /\ \E writePos \in restartStepWritePosition(rst, seqnum) :
                    LET opened == writeExisting(restart.fs, fname)
                        sized  == IF writePos = -1 THEN opened
                                  ELSE resize_file(opened, fname, writePos)
                    IN  /\ Len(sized[fname].records) < MaxRecords
                        /\ restart' = [restart EXCEPT
                                          !.fs = write(sized, OpenStream(fname),
                                                       SeqnumRecord(seqnum)),
                                          !.stream_ = OpenStream(fname),
                                          !.call = Returned(seqnum, writePos)]
    /\ UNCHANGED <<ext, input, schedule, control, engine>>

\* the same, but seekp fails after the file was resized: invalid_argument
PrepareStepSeekFails ==
    /\ restart.pc = "ready" /\ restart.unified_
    /\ \E seqnum \in Seqnums :
          LET fname == outputFileName(restart, seqnum)
              rst   == restart.fs[fname]
          IN  /\ rst.exists /\ hasKey(rst, "SEQNUM")
              /\ \E writePos \in restartStepWritePosition(rst, seqnum) \ {-1} :
                    restart' = [restart EXCEPT
                                   !.fs = resize_file(writeExisting(@, fname), fname, writePos),
                                   !.stream_ = OpenStream(fname),
                                   !.call = Threw(seqnum, writePos)]
    /\ UNCHANGED <<ext, input, schedule, control, engine>>

\* the caller writes a record through stream()
StreamWrite ==
    /\ restart.pc = "ready" /\ restart.stream_.open
    /\ Len(restart.fs[restart.stream_.fname].records) < MaxRecords
    /\ restart' = [restart EXCEPT !.fs = write(@, restart.stream_, DataRecord),
                                  !.call = [NoPrepareStep EXCEPT !.op = "write"]]
    /\ UNCHANGED <<ext, input, schedule, control, engine>>

NextRestart ==
    \/ PrepareStepSeparate
    \/ PrepareStepUnifiedNew
    \/ PrepareStepNotRestartFile
    \/ PrepareStepExisting
    \/ PrepareStepSeekFails
    \/ StreamWrite

SpecRestart == InitRestart /\ [][NextRestart]_vars


\* where initFromState is, or was when it threw
Stage ==
    IF pc = "failed"
    THEN IF err.kind = "ExtrapolationImpossible"
         THEN (IF err.table = "PVTGW" THEN "pvtgwExtend" ELSE "pvtgExtend")
         ELSE IF err.kind = "InsufficientData"
         THEN (IF err.table = "PVTGW" THEN "pvtgw"
               ELSE IF err.table = "PVTG" THEN "pvtg" ELSE "salt")
         ELSE "checkSizes"
    ELSE pc

WetStages == {"pvtgw", "pvtgwExtend"}
HumidStages == {"pvtg", "pvtgExtend"}
PostStages == {"vapPar", "initEnd", "done"}

\* the "two sample points" loop of table (fam, r) has handled outer index i
\* without throwing
NodeDone(fam, r, i) ==
    IF fam = "PVTGW"
    THEN \/ Stage \in HumidStages \cup PostStages
         \/ /\ Stage \in WetStages
            /\ r < regionIdx \/ (Stage = "pvtgwExtend" /\ r = regionIdx /\ i < xIdx)
    ELSE \/ Stage \in PostStages
         \/ /\ Stage \in HumidStages
            /\ r < regionIdx \/ (Stage = "pvtgExtend" /\ r = regionIdx /\ i < xIdx)

\* the region iteration of table (fam, r) has ended without throwing
TableDone(fam, r) ==
    IF fam = "PVTGW"
    THEN \/ Stage \in HumidStages \cup PostStages
         \/ Stage \in WetStages /\ r < regionIdx
    ELSE \/ Stage \in PostStages
         \/ Stage \in HumidStages /\ r < regionIdx

Regions == 0..numRegions - 1
Nodes(tbl) == 0..NumRows(tbl) - 1
RawCount(tbl, i) == Len(UnderSaturatedTable(tbl, i))

SizesMatch == Len(pvtgwTables) = Len(densityTable) /\ Len(pvtgTables) = Len(densityTable)

\* nothing of the engine has been written
EngineUntouched ==
    /\ numRegions = 0
    /\ referenceDensity_ = <<>>
    /\ enableRwgSalt_ = FALSE
    /\ saturatedWaterVaporizationSaltFactorTable_ = <<>>
    /\ inverseGasBRvSat_ = <<>> /\ gasMuRvSat_ = <<>>
    /\ inverseGasBRvwSat_ = <<>> /\ gasMuRvwSat_ = <<>>
    /\ inverseSaturatedGasB_ = <<>> /\ inverseSaturatedGasBMu_ = <<>>
    /\ saturatedWaterVaporizationFactorTable_ = <<>>
    /\ saturatedOilVaporizationFactorTable_ = <<>>
    /\ vapPar1_ = Sc(0)
    /\ initEndCalled = FALSE

\* ------------------------------------------------------------------ C1
\* the input is valid in the sense of C1
ValidInput ==
    /\ SizesMatch
    /\ \A fam \in GasFamilies : \A k \in 1..Len(RawTables(fam)) :
          LET tbl == RawTables(fam)[k]
          IN  /\ NumRows(tbl) >= 2
              /\ \A i \in Nodes(tbl) : RawCount(tbl, i) >= 1
              /\ RawCount(tbl, NumRows(tbl) - 1) >= 2

\* C1: when initFromState has completed without error on a valid input, the
\* 2-D inverse-B and viscosity tables of every region and of both families
\* have one outer node per saturated row, each with at least 2 inner samples.
C1_EveryNodeHasTwoSamples ==
    (pc = "done" /\ ValidInput) =>
        /\ numRegions = Len(densityTable)
        /\ \A fam \in GasFamilies : \A r \in Regions :
              LET tbl == RawTables(fam)[r + 1]
              IN  \A t \in {InvBTables(fam)[r + 1], MuTables(fam)[r + 1]} :
                     /\ numX(t) = NumRows(tbl)
                     /\ Len(t.samples) = NumRows(tbl)
                     /\ \A i \in Nodes(tbl) : numY(t, i) >= 2

\* a completed construction with two regions in which a branch had been
\* degenerate in the raw table
C1_Witness ==
    /\ pc = "done" /\ ValidInput /\ numRegions >= 2
    /\ \E fam \in GasFamilies : \E r \in Regions :
          \E i \in Nodes(RawTables(fam)[r + 1]) : RawCount(RawTables(fam)[r + 1], i) = 1

\* ------------------------------------------------------------------ C2
\* C2: when the number of PVTGW tables or of PVTG tables differs from the
\* number of density records, initFromState throws the size mismatch error at
\* its first step, with the region count unset and nothing of the engine
\* written.
C2_MismatchThrowsFirst ==
    ~SizesMatch =>
        /\ pc \in {"checkSizes", "failed"}
        /\ pc = "failed" => err.kind = "TableMismatch"
        /\ pc = "checkSizes" => ENABLED CheckTableSizes
        /\ EngineUntouched

\* the mismatch error thrown for the PVTG count alone
C2_Witness ==
    /\ pc = "failed" /\ err.kind = "TableMismatch" /\ err.table = "PVTG"
    /\ Len(pvtgwTables) = Len(densityTable)
    /\ Len(pvtgTables) > Len(densityTable)

\* ------------------------------------------------------------------ C3
\* salt tables for every region or for none
SaltCountOk == Len(rwgsaltTables) \in {0, Len(densityTable)}

\* the tables initFromState reads, as <<family, region>>
TablesRead ==
    {q \in Positions(Len(pvtgwTables), Len(pvtgTables), Len(rwgsaltTables)) :
        q[2] < Len(densityTable)}
RawTableAt(q) ==
    IF q[1] = "RWGSALT" THEN rwgsaltTables[q[2] + 1] ELSE RawTables(q[1])[q[2] + 1]
OneRowTables == {q \in TablesRead : NumRows(RawTableAt(q)) = 1}

\* the order in which initFromState reads the tables: the salt tables by
\* region, then the PVTGW tables by region, then the PVTG tables by region
ReadOrder(q) == FamOff(IF q[1] = "RWGSALT" THEN "PVTGW"
                       ELSE IF q[1] = "PVTGW" THEN "PVTG" ELSE "RWGSALT")
                    * Len(densityTable) + q[2]

\* node i of the raw table has a single row and no later master
DegenerateWithoutMaster(tbl, i) ==
    /\ RawCount(tbl, i) = 1
    /\ \A m \in Nodes(tbl) : m > i => RawCount(tbl, m) < 2

\* C3 as stated: with matching counts and a saturated table of exactly one
\* row somewhere, initFromState throws InsufficientData and nothing else.
C3_Original ==
    (SizesMatch /\ SaltCountOk /\ OneRowTables # {}) =>
        /\ pc \notin PostStages \cup {"crashed"}
        /\ pc = "failed" => err.kind = "InsufficientData"

\* C3 (amended): with matching counts and a saturated table of exactly one
\* row somewhere, initFromState never reaches initEnd; the error it throws is
\* InsufficientData, unless a PVTGW or PVTG table read before every one-row
\* table has a single-row node without a later master, for which
\* ExtrapolationImpossible is thrown first.
C3_OneRowNeverCompletes ==
    (SizesMatch /\ SaltCountOk /\ OneRowTables # {}) =>
        /\ pc \notin PostStages \cup {"crashed"}
        /\ ~initEndCalled
        /\ pc = "failed" =>
              \/ err.kind = "InsufficientData"
              \/ /\ err.kind = "ExtrapolationImpossible"
                 /\ \A q \in OneRowTables : ReadOrder(<<err.table, regionIdx>>) < ReadOrder(q)
                 /\ DegenerateWithoutMaster(RawTables(err.table)[regionIdx + 1], xIdx)

\* InsufficientData thrown for a one-row PVTG table of the second region, all
\* tables before it being complete
C3_Witness ==
    /\ pc = "failed" /\ err = [kind |-> "InsufficientData", table |-> "PVTG"]
    /\ SizesMatch /\ SaltCountOk /\ regionIdx = 1
    /\ OneRowTables = {<<"PVTG", 1>>}

\* ------------------------------------------------------------------ C4
\* C4: the "two sample points" loop of a table throws ExtrapolationImpossible
\* at a node exactly when that node has a single raw row and no later node of
\* the table has two or more raw rows: a throw happens only at such a node,
\* and no such node is ever passed without a throw (the last node included).
C4_ThrowsIffNoMaster ==
    /\ (pc = "failed" /\ err.kind = "ExtrapolationImpossible") =>
           DegenerateWithoutMaster(RawTables(err.table)[regionIdx + 1], xIdx)
    /\ \A fam \in GasFamilies : \A r \in Regions :
          LET tbl == RawTables(fam)[r + 1]
          IN  \A i \in Nodes(tbl) :
                 NodeDone(fam, r, i) => ~DegenerateWithoutMaster(tbl, i)

\* the throw at a node that is not the last one, in the PVTG table of the
\* second region
C4_Witness ==
    /\ pc = "failed" /\ err = [kind |-> "ExtrapolationImpossible", table |-> "PVTG"]
    /\ regionIdx = 1
    /\ xIdx + 1 < NumRows(pvtgTables[regionIdx + 1])

\* ------------------------------------------------------------------ C5
HasMaster(tbl, i) == \E m \in Nodes(tbl) : m > i /\ RawCount(tbl, m) >= 2
\* the first later node with two or more raw rows
FirstMaster(tbl, i) ==
    CHOOSE m \in Nodes(tbl) :
        /\ m > i /\ RawCount(tbl, m) >= 2
        /\ \A k \in Nodes(tbl) : (i < k /\ k < m) => RawCount(tbl, k) < 2

\* C5: a node with a single raw row that the loop has handled was extended
\* from the first later node with two or more raw rows: its branch holds as
\* many samples as that master has raw rows, in both 2-D tables, and its last
\* ratio is its own raw ratio plus the master's whole ratio span.
C5_FirstMasterAndCount ==
    \A fam \in GasFamilies : \A r \in Regions :
        LET tbl == RawTables(fam)[r + 1]
        IN  \A i \in Nodes(tbl) :
               (NodeDone(fam, r, i) /\ RawCount(tbl, i) = 1) =>
                   /\ HasMaster(tbl, i)
                   /\ LET master == UnderSaturatedTable(tbl, FirstMaster(tbl, i))
                          cur    == UnderSaturatedTable(tbl, i)
                          b      == InvBTables(fam)[r + 1].samples[i + 1]
                          v      == MuTables(fam)[r + 1].samples[i + 1]
                      IN  /\ Len(b) = Len(master)
                          /\ Len(v) = Len(master)
                          /\ b[Len(b)][1] =
                                 ScAdd(cur[1].R, ScSub(master[Len(master)].R, master[1].R))
                          /\ v[Len(v)][1] = b[Len(b)][1]

\* a single-row node whose first master has three or more rows and is
\* followed by another candidate of a different length
C5_Witness ==
    /\ pc = "done"
    /\ \E fam \in GasFamilies : \E r \in Regions :
          LET tbl == RawTables(fam)[r + 1]
          IN  \E i \in Nodes(tbl) :
                 /\ RawCount(tbl, i) = 1 /\ HasMaster(tbl, i)
                 /\ RawCount(tbl, FirstMaster(tbl, i)) >= 3
                 /\ \E m \in Nodes(tbl) :
                       /\ m > FirstMaster(tbl, i) /\ RawCount(tbl, m) >= 2
                       /\ RawCount(tbl, m) # RawCount(tbl, FirstMaster(tbl, i))

\* ------------------------------------------------------------------ C6
StrictlyIncreasing(xs) == \A k \in 1..Len(xs) - 1 : ScLess(xs[k], xs[k + 1])

\* the ratio column of every raw undersaturated table is strictly increasing
RawRatiosIncreasing ==
    \A fam \in GasFamilies : \A k \in 1..Len(RawTables(fam)) :
        \A i \in Nodes(RawTables(fam)[k]) :
            StrictlyIncreasing(Column(UnderSaturatedTable(RawTables(fam)[k], i), "R"))

\* C6: when the raw ratio columns are strictly increasing, the inner axis of
\* every branch of every 2-D table is strictly increasing, at every point of
\* the construction and for extended branches too.
C6_RatiosIncreasing ==
    RawRatiosIncreasing =>
        \A fam \in GasFamilies : \A k \in 1..Len(InvBTables(fam)) :
            \A t \in {InvBTables(fam)[k], MuTables(fam)[k]} :
                \A i \in 1..Len(t.samples) :
                    StrictlyIncreasing([j \in 1..Len(t.samples[i]) |-> t.samples[i][j][1]])

\* a finished construction in which a single-row branch was extended to
\* three samples or more
C6_Witness ==
    /\ pc = "done" /\ RawRatiosIncreasing
    /\ \E fam \in GasFamilies : \E r \in Regions :
          \E i \in Nodes(RawTables(fam)[r + 1]) :
              /\ RawCount(RawTables(fam)[r + 1], i) = 1
              /\ numY(InvBTables(fam)[r + 1], i) >= 3

\* ------------------------------------------------------------------ C8
Table2DPair(fam, r) == [invB |-> InvBTables(fam)[r + 1], mu |-> MuTables(fam)[r + 1]]

\* C8: on a table whose "two sample points" loop has run to its end, every
\* branch has two samples or more, and running the loop over it once more
\* changes neither 2-D table and does not throw.
C8_SecondPassIsNoOp ==
    \A fam \in GasFamilies : \A r \in Regions :
        TableDone(fam, r) =>
            LET t2 == Table2DPair(fam, r)
            IN  /\ \A i \in Nodes(RawTables(fam)[r + 1]) : numY(t2.invB, i) >= 2
                /\ ExtrapolationPass(fam, t2, RawTables(fam)[r + 1], 0)
                       = [t2 |-> t2, throws |-> FALSE]

\* the PVTGW loop of the first region has ended and has extended a branch to
\* exactly two samples
C8_Witness ==
    /\ TableDone("PVTGW", 0) /\ pc \in WetStages \cup HumidStages
    /\ \E i \in Nodes(pvtgwTables[1]) :
          RawCount(pvtgwTables[1], i) = 1 /\ numY(inverseGasBRvSat_[1], i) = 2

\* ------------------------------------------------------------------ C9
\* C9 as stated: ExtrapolationImpossible is never thrown for a table in which
\* some branch has two samples or more.
C9_Original ==
    (pc = "failed" /\ err.kind = "ExtrapolationImpossible") =>
        \A i \in Nodes(RawTables(err.table)[regionIdx + 1]) :
            numY(InvBTables(err.table)[regionIdx + 1], i) < 2

\* C9 (amended): ExtrapolationImpossible is never thrown for a table whose
\* last branch has two samples or more; a branch with two samples that lies
\* before a single-sample node does not prevent the throw.
C9_NoThrowWhenLastBranchComplete ==
    (pc = "failed" /\ err.kind = "ExtrapolationImpossible") =>
        LET tbl == RawTables(err.table)[regionIdx + 1]
        IN  /\ RawCount(tbl, NumRows(tbl) - 1) < 2
            /\ numY(InvBTables(err.table)[regionIdx + 1], NumRows(tbl) - 1) < 2

\* the loop has run to its end over a PVTG table that has single-row nodes
\* and a last branch of two rows or more
C9_Witness ==
    /\ numRegions >= 1 /\ TableDone("PVTG", 0)
    /\ LET tbl == pvtgTables[1]
       IN  /\ RawCount(tbl, NumRows(tbl) - 1) >= 2
           /\ \E i \in Nodes(tbl) : \E k \in Nodes(tbl) :
                 i < k /\ RawCount(tbl, i) = 1 /\ RawCount(tbl, k) = 1

\* ----------------------------------------------------------------- C10
\* no density and no entry of any 1-D, 2-D or salt table has been written
NoEntryWritten ==
    /\ \A k \in 1..Len(referenceDensity_) : referenceDensity_[k] = NoDensity
    /\ \A k \in 1..Len(saturatedWaterVaporizationSaltFactorTable_) :
          saturatedWaterVaporizationSaltFactorTable_[k] = EmptyTable2D
    /\ \A fam \in GasFamilies : \A k \in 1..Len(InvBTables(fam)) :
          InvBTables(fam)[k] = EmptyTable2D /\ MuTables(fam)[k] = EmptyTable2D
    /\ \A k \in 1..Len(inverseSaturatedGasB_) :
          /\ inverseSaturatedGasB_[k] = EmptyTable1D
          /\ inverseSaturatedGasBMu_[k] = EmptyTable1D
          /\ saturatedWaterVaporizationFactorTable_[k] = EmptyTable1D
          /\ saturatedOilVaporizationFactorTable_[k] = EmptyTable1D

OwnTablesEmpty(fam, r) ==
    IF fam = "RWGSALT" THEN saturatedWaterVaporizationSaltFactorTable_[r + 1] = EmptyTable2D
    ELSE /\ InvBTables(fam)[r + 1] = EmptyTable2D
         /\ MuTables(fam)[r + 1] = EmptyTable2D
         /\ IF fam = "PVTGW"
            THEN /\ saturatedWaterVaporizationFactorTable_[r + 1] = EmptyTable1D
                 /\ inverseSaturatedGasB_[r + 1] = EmptyTable1D
                 /\ inverseSaturatedGasBMu_[r + 1] = EmptyTable1D
            ELSE saturatedOilVaporizationFactorTable_[r + 1] = EmptyTable1D

\* the 2-D table built from raw table q has one outer node per saturated row
BuiltFrom(q) ==
    LET t == IF q[1] = "RWGSALT" THEN saturatedWaterVaporizationSaltFactorTable_[q[2] + 1]
             ELSE InvBTables(q[1])[q[2] + 1]
    IN  numX(t) = NumRows(RawTableAt(q)) /\ numX(t) >= 2

ClaimedNewValue(s, a0, a1) ==
    LET x == ScDiv(ScSub(a1, a0), ScDiv(ScAdd(a0, a1), Sc(2)))
    IN  ScDiv(ScMul(s, ScAdd(Sc(1), ScDiv(x, Sc(2)))), ScSub(Sc(1), ScDiv(x, Sc(2))))

\* C7: after an extension call the branch of the node holds its own raw
\* sample followed by one synthesized sample per master step k: the ratio is
\* the previous ratio plus the master's ratio step, B (stored as 1/B) and the
\* viscosity are the previous values of the node changed by the master's
\* relative change at step k.  A master of two rows appends exactly one sample.
\* The master's own branch is left as it was.
C7_SynthesizedSamples ==
    ext.pc = "returned" =>
        LET M == ext.masterTable
            c == ext.curTable[1]
            b == ext.t2.invB.samples[1]
            v == ext.t2.mu.samples[1]
        IN  /\ Len(b) = Len(M) /\ Len(v) = Len(M)
            /\ b[1] = <<c.R, ScDiv(Sc(1), c.BG)>>
            /\ v[1] = <<c.R, c.MUG>>
            /\ \A k \in 2..Len(M) :
                  /\ b[k][1] = ScAdd(b[k - 1][1], ScSub(M[k].R, M[k - 1].R))
                  /\ v[k][1] = b[k][1]
                  /\ b[k][2] = ScDiv(Sc(1), ClaimedNewValue(ScDiv(Sc(1), b[k - 1][2]),
                                                            M[k - 1].BG, M[k].BG))
                  /\ v[k][2] = ClaimedNewValue(v[k - 1][2], M[k - 1].MUG, M[k].MUG)
            /\ ext.t2.invB.samples[2] = [k \in 1..Len(M) |-> <<M[k].R, ScDiv(Sc(1), M[k].BG)>>]
            /\ ext.t2.mu.samples[2] = [k \in 1..Len(M) |-> <<M[k].R, M[k].MUG>>]

\* a call with a master of two rows whose B and viscosity both change, for a
\* node whose own values differ from the master's
C7_Witness ==
    /\ ext.pc = "returned" /\ Len(ext.masterTable) = 2
    /\ ext.masterTable[1].BG # ext.masterTable[2].BG
    /\ ext.masterTable[1].MUG # ext.masterTable[2].MUG
    /\ ext.masterTable[1].R # ext.masterTable[2].R
    /\ ext.curTable[1].BG # ext.masterTable[1].BG
    /\ Len(ext.t2.invB.samples[1]) = 2

\* ----------------------------------------------------------------- C11
\* salt tables are present and their number differs from the density count
SaltCountMismatch ==
    SizesMatch /\ Len(rwgsaltTables) # 0 /\ Len(rwgsaltTables) # Len(densityTable)

\* C11 as stated: when salt tables are present and their number differs from
\* the number of density records, initFromState throws TableMismatch: it
\* neither completes nor dies, throws no other error, and never reads the salt
\* table of a region that has none.
C11_SaltMismatchThrows ==
    SaltCountMismatch =>
        /\ pc \notin {"done", "crashed"}
        /\ pc = "failed" => err.kind = "TableMismatch"
        /\ ~(pc = "salt" /\ ~(regionIdx < Len(rwgsaltTables)))

\* ----------------------------------------------------------------- C12
\* the tables of family fam are completely built for region r
FullyBuilt(fam, r) ==
    LET tbl == RawTables(fam)[r + 1]
        vaporizationFac == IF fam = "PVTGW"
                           THEN saturatedWaterVaporizationFactorTable_[r + 1]
                           ELSE saturatedOilVaporizationFactorTable_[r + 1]
    IN  /\ numX(InvBTables(fam)[r + 1]) = NumRows(tbl)
        /\ numX(MuTables(fam)[r + 1]) = NumRows(tbl)
        /\ \A i \in Nodes(tbl) :
              numY(InvBTables(fam)[r + 1], i) >= 2 /\ numY(MuTables(fam)[r + 1], i) >= 2
        /\ vaporizationFac = setXYArrays(Column(tbl.sat, "PG"), Column(tbl.sat, "R"))
        /\ Len(inverseSaturatedGasB_[r + 1].x) >= 2
        /\ Len(inverseSaturatedGasBMu_[r + 1].x) >= 2

\* initEnd has run only after every region of both families was built
FinalizedOnlyWhenBuilt ==
    initEndCalled =>
        /\ pc = "done"
        /\ numRegions = Len(densityTable)
        /\ \A fam \in GasFamilies : \A r \in Regions : FullyBuilt(fam, r)

\* C12 as stated: whenever initFromState throws, nothing of the engine has
\* been modified and initEnd has not run; initEnd runs only after every region
\* of both families was built.
C12_Original ==
    /\ pc = "failed" => (EngineUntouched /\ ~initEndCalled)
    /\ FinalizedOnlyWhenBuilt

\* C12 (amended): whenever initFromState throws, initEnd has not run, and
\* initEnd runs only after every region of both families was built.  Only a
\* TableMismatch leaves the engine unmodified: when InsufficientData or
\* ExtrapolationImpossible is thrown, the region count and every reference
\* density are already written, and the tables of every region and family
\* whose iteration ended before the throw are built.
C12_FailureLeavesUnfinalizedState ==
    /\ pc = "failed" => ~initEndCalled
    /\ (pc = "failed" /\ err.kind = "TableMismatch") => EngineUntouched
    /\ (pc = "failed" /\ err.kind # "TableMismatch") =>
           /\ numRegions = Len(densityTable) /\ numRegions >= 1
           /\ referenceDensity_ = densityTable
           /\ \A fam \in GasFamilies : \A r \in Regions :
                  TableDone(fam, r) => FullyBuilt(fam, r)
    /\ FinalizedOnlyWhenBuilt

\* ExtrapolationImpossible thrown for the PVTG table of the second region:
\* both PVTGW tables and the first PVTG table are built
C12_Witness ==
    /\ pc = "failed" /\ err = [kind |-> "ExtrapolationImpossible", table |-> "PVTG"]
    /\ regionIdx = 1
    /\ FullyBuilt("PVTGW", 1) /\ FullyBuilt("PVTG", 0)

\* ----------------------------------------------------------------- C13
\* C13 as stated: once the PVTGW iteration of a region has ended, the
\* saturated 1/B and 1/(mu*B) curves of the region hold the values of the
\* PVTGW saturated rows over the PVTGW pressure column, and they keep them
\* while and after the PVTG family is built.
C13_WetCurvesKept ==
    \A r \in Regions :
        TableDone("PVTGW", r) =>
            /\ inverseSaturatedGasB_[r + 1] = InvSatGasB(pvtgwTables[r + 1].sat)
            /\ inverseSaturatedGasBMu_[r + 1] = InvSatGasBMu(pvtgwTables[r + 1].sat)

\* ----------------------------------------------------------------- C14
\* the 2-D tables of a raw table after the extraction loop and the "two
\* sample points" loop, computed from the raw table alone
BuiltPair(fam, tbl) ==
    ExtrapolationPass(fam, [invB |-> FillTable2D(EmptyTable2D, tbl, 0, "invB"),
                            mu   |-> FillTable2D(EmptyTable2D, tbl, 0, "mu")], tbl, 0).t2

VaporizationFac(tbl) == setXYArrays(Column(tbl.sat, "PG"), Column(tbl.sat, "R"))

\* every output but the salt flag and the salt tables
OtherOutputs ==
    <<numRegions, referenceDensity_, wetTables, humidTables, satCurves, vapPar1_>>

\* what the density, PVTGW and PVTG tables and the schedule alone determine
OutputsWithoutSalt ==
    LET n == Len(densityTable)
    IN  <<n,
          densityTable,
          <<[k \in 1..n |-> BuiltPair("PVTGW", pvtgwTables[k]).invB],
            [k \in 1..n |-> BuiltPair("PVTGW", pvtgwTables[k]).mu],
            [k \in 1..n |-> VaporizationFac(pvtgwTables[k])]>>,
          <<[k \in 1..n |-> BuiltPair("PVTG", pvtgTables[k]).invB],
            [k \in 1..n |-> BuiltPair("PVTG", pvtgTables[k]).mu],
            [k \in 1..n |-> VaporizationFac(pvtgTables[k])]>>,
          <<[k \in 1..n |-> InvSatGasB(pvtgTables[k].sat)],
            [k \in 1..n |-> InvSatGasBMu(pvtgTables[k].sat)]>>,
          IF schedule[1].type = "VAPPARS" THEN schedule[1].vap1 ELSE Sc(0)>>

\* C14: without salt tables the salt flag stays off and no salt table gets an
\* outer position or a sample; and whenever initFromState completes, with
\* salt tables or without, every other output (region count, reference
\* densities, the 1-D and 2-D tables of both families, vapPar1_) is what the
\* density, PVTGW and PVTG tables and the schedule alone determine, hence the
\* same with and without salt tables.
C14_SaltAbsentSameOutputs ==
    /\ Len(rwgsaltTables) = 0 =>
           /\ ~enableRwgSalt_
           /\ \A k \in 1..Len(saturatedWaterVaporizationSaltFactorTable_) :
                 saturatedWaterVaporizationSaltFactorTable_[k] = EmptyTable2D
    /\ pc = "done" => OtherOutputs = OutputsWithoutSalt

\* a completed construction of two regions without salt tables, in which a
\* branch was extended
C14_Witness ==
    /\ pc = "done" /\ Len(rwgsaltTables) = 0 /\ numRegions = 2
    /\ \E i \in Nodes(pvtgwTables[1]) : RawCount(pvtgwTables[1], i) = 1

\* ----------------------------------------------------------------- C15
\* the salt loop has ended its iteration for region r without throwing
SaltDone(r) ==
    /\ enableRwgSalt_
    /\ \/ Stage \in WetStages \cup HumidStages \cup PostStages
       \/ Stage = "salt" /\ r < regionIdx

\* the raw rows of a salt table: per saturated row the pressure, and the
\* (salt concentration, vaporization ratio) rows of its branch in order
RawSaltTable(tbl) ==
    [xPos    |-> [i \in 1..NumRows(tbl) |-> tbl.sat[i].PG],
     samples |-> [i \in 1..NumRows(tbl) |->
                     [k \in 1..Len(tbl.under[i]) |->
                         <<tbl.under[i][k].C_SALT, tbl.under[i][k].RVW>>]]]

\* C15: once the salt loop has passed a region that has a salt table, and up
\* to the end of construction, the salt table of the region holds exactly the
\* raw rows of the input in the supplied order, whatever the length of a
\* branch; and the only error raised for a salt table is that of a saturated
\* table of fewer than 2 rows, never one for a short branch.
C15_SaltTablesRaw ==
    /\ \A r \in Regions :
          (SaltDone(r) /\ r < Len(rwgsaltTables)) =>
              saturatedWaterVaporizationSaltFactorTable_[r + 1]
                  = RawSaltTable(rwgsaltTables[r + 1])
    /\ (pc = "failed" /\ err.table = "RWGSALT" /\ regionIdx < Len(rwgsaltTables)) =>
           /\ err.kind = "InsufficientData"
           /\ NumRows(rwgsaltTables[regionIdx + 1]) < 2

\* a completed construction with a salt table that has a branch of fewer
\* than two rows
C15_Witness ==
    /\ pc = "done" /\ enableRwgSalt_ /\ numRegions >= 1 /\ SaltCountOk
    /\ \E i \in Nodes(rwgsaltTables[1]) :
          /\ RawCount(rwgsaltTables[1], i) < 2
          /\ numY(saturatedWaterVaporizationSaltFactorTable_[1], i)
                 = RawCount(rwgsaltTables[1], i)

\* ----------------------------------------------------------------- C16
\* C16: when initFromState has completed, the region count is the length of
\* the density table and region r carries the oil, gas and water reference
\* densities of density record r.
C16_RegionCountAndDensities ==
    pc = "done" =>
        /\ numRegions = Len(densityTable)
        /\ Len(referenceDensity_) = numRegions
        /\ \A r \in Regions :
              /\ referenceDensity_[r + 1].oil = densityTable[r + 1].oil
              /\ referenceDensity_[r + 1].gas = densityTable[r + 1].gas
              /\ referenceDensity_[r + 1].water = densityTable[r + 1].water

\* a completed construction of two regions whose density records differ
C16_Witness ==
    /\ pc = "done" /\ numRegions = 2 /\ Len(densityTable) = 2
    /\ densityTable[1] # densityTable[2]
    /\ referenceDensity_[2] = densityTable[2]

\* ----------------------------------------------------------------- C17
\* vapPar1_ as step 0 of the schedule determines it
VapParOfStep0 ==
    IF schedule[1].type = "VAPPARS" THEN schedule[1].vap1 ELSE Sc(0)

\* the schedule is read and vapPar1_ assigned in one step only: when both
\* families are built for every region, and with initEnd as the next step
VapParAssignedLast ==
    (vapPar1_' # vapPar1_ \/ schedule' # schedule) =>
        /\ pc = "vapPar" /\ pc' = "initEnd" /\ ~initEndCalled
        /\ \A fam \in GasFamilies : \A r \in Regions : FullyBuilt(fam, r)

\* C17: vapPar1_ is 0 until it is assigned; from the assignment on it is the
\* vap1 value of schedule step 0 when the oil vaporization type of step 0 is
\* VAPPARS and 0 otherwise, whatever the later steps say; it is assigned only
\* after both families were built, immediately before initEnd.
C17_VapParFromStep0 ==
    /\ [](/\ pc \in {"initEnd", "done"} => vapPar1_ = VapParOfStep0
          /\ pc \notin {"initEnd", "done"} => vapPar1_ = Sc(0))
    /\ [][VapParAssignedLast]_vars

\* a completed construction in which step 0 is not VAPPARS while a later step
\* is
C17_Witness ==
    /\ pc = "done" /\ numRegions >= 1
    /\ schedule[1].type = "DRDT" /\ schedule[2].type = "VAPPARS"
    /\ vapPar1_ = Sc(0) /\ schedule[2].vap1 # Sc(0)

\* ----------------------------------------------------------------- C18
\* the B values of the branch of the extended node, from the stored 1/B
BranchB(k) == ScDiv(Sc(1), ext.t2.invB.samples[1][k][2])
BranchMu(k) == ext.t2.mu.samples[1][k][2]

\* C18: after an extension call, every synthesized value stands to the
\* node's previous value as the master's value stands to the master's
\* previous value: newB * B[k-1] = lastB * B[k], and the same for the
\* viscosity; hence the j-th synthesized B is B_s * B_master[j] / B_master[0].
\* With strictly positive inputs every synthesized B and viscosity is
\* strictly positive, so 1/newB divides by no zero.
C18_ValueRatioTransferred ==
    ext.pc = "returned" =>
        LET M == ext.masterTable
            c == ext.curTable[1]
        IN  \A k \in 2..Len(M) :
               /\ ScMul(BranchB(k), M[k - 1].BG) = ScMul(BranchB(k - 1), M[k].BG)
               /\ ScMul(BranchMu(k), M[k - 1].MUG) = ScMul(BranchMu(k - 1), M[k].MUG)
               /\ BranchB(k) = ScDiv(ScMul(c.BG, M[k].BG), M[1].BG)
               /\ BranchMu(k) = ScDiv(ScMul(c.MUG, M[k].MUG), M[1].MUG)
               /\ ScLess(Sc(0), BranchB(k)) /\ ScLess(Sc(0), BranchMu(k))
               /\ ScLess(Sc(0), ext.t2.invB.samples[1][k][2])

\* a call with a master of three rows whose B goes up and down again, for a
\* node whose B is none of the master's
C18_Witness ==
    /\ ext.pc = "returned" /\ Len(ext.masterTable) = 3
    /\ ext.masterTable[1].BG = Sc(2) /\ ext.masterTable[2].BG = Sc(5)
    /\ ext.masterTable[3].BG = Sc(2)
    /\ ext.curTable[1].BG = Sc(3)
    /\ Len(ext.t2.invB.samples[1]) = 3

\* ----------------------------------------------------------------- C19
\* the records of a file that lie before a write position (-1: all of them)
RecordsBefore(file, writePos) ==
    IF writePos = -1 THEN file.records ELSE SubSeq(file.records, 1, writePos)

\* what one call of prepareStep does, by the mode of the run and the state of
\* its file before the call
PrepareStepAsSpecified ==
    LET seqnum == restart'.call.seqnum
        fname  == outputFileName(restart, seqnum)
        before == restart.fs[fname]
        after  == restart'.fs[fname]
        call   == restart'.call
        kept   == RecordsBefore(before, call.writePos)
    IN  /\ \A other \in (DOMAIN restart.fs) \ {fname} :
               restart'.fs[other] = restart.fs[other]
        /\ ~restart.unified_ =>
               /\ call.outcome = "returned"
               /\ after = File(<<>>)
               /\ restart'.stream_ = OpenStream(fname)
        /\ (restart.unified_ /\ ~before.exists) =>
               /\ call.outcome = "returned"
               /\ after = File(<<SeqnumRecord(seqnum)>>)
               /\ restart'.stream_ = OpenStream(fname)
        /\ (restart.unified_ /\ before.exists /\ ~hasKey(before, "SEQNUM")) =>
               /\ call.outcome = "threw"
               /\ after = before
               /\ restart'.stream_ = restart.stream_
        /\ (restart.unified_ /\ before.exists /\ hasKey(before, "SEQNUM")) =>
               /\ restart'.stream_ = OpenStream(fname)
               /\ call.writePos \in -1..Len(before.records)
               /\ call.outcome = "threw" => after = File(kept)
        /\ (restart.unified_ /\ call.outcome = "returned") =>
               /\ after.exists
               /\ Len(after.records) = Len(kept) + 1
               /\ SubSeq(after.records, 1, Len(kept)) = kept
               /\ after.records[Len(after.records)] = SeqnumRecord(seqnum)

\* C19: every call of prepareStep(seqnum) acts by mode and file state.  A run
\* with separate files gets a new, empty file without SEQNUM record.  A
\* unified run gets a new file when none can be opened; throws, leaving file
\* and stream as they are, when the file has no SEQNUM key; and otherwise
\* reopens the file for appending, cut to the reported write position unless
\* that is -1.  Whenever the call of a unified run returns, the records
\* before the write position are kept and exactly one record, SEQNUM with
\* seqnum, follows them.  No other file changes.
C19_PrepareStep ==
    [][(restart.pc = "ready" /\ restart'.call.op = "prepareStep") =>
           PrepareStepAsSpecified]_vars

\* a unified run has reopened a restart file of two records at position 1
\* for step 2: the first record is kept, the second replaced by SEQNUM 2
C19_Witness ==
    /\ restart.pc = "ready" /\ restart.unified_
    /\ restart.call = Returned(2, 1)
    /\ restart.fs[outputFileName(restart, 2)] = File(<<SeqnumRecord(0), SeqnumRecord(2)>>)

=============================================================================
